---- MODULE Spec2Model ----
(***************************************************************************)
(* A model of rag_challenge.py: PDFQuestionAnswerer (metadata index,       *)
(* company resolver, page prioritizer, evidence batcher, question          *)
(* processor, batch runner) and main().                                    *)
(*                                                                         *)
(* Strings are modelled as sequences of lexemes: a word, one whitespace    *)
(* character " ", or one punctuation mark.  lower(), strip(), split(),     *)
(* the substring test and the regular expressions are computed on these    *)
(* sequences.  Confidences are in tenths (0.9 is 9).                       *)
(***************************************************************************)
EXTENDS Integers, Sequences, FiniteSets, TLC

\* ------------------------------------------------------------------ bounds
MaxMeta == 2
MaxQuestions == 2
MaxPages == 6
MaxNameLen == 3

\* ------------------------------------------------------- program constants
batch_size == 5
SuccessConfidence == 9
FailureConfidence == 0
NoPage == -1

\* ------------------------------------------------------------------ strings
Ws == " "
NA == <<"N/A">>

\* Optional[T]: None is the empty tuple, a value x is <<x>>.
None == <<>>
Some(x) == <<x>>

\* str.lower() on one lexeme.
LowerTable ==
  {<<"Acme", "acme">>, <<"ACME", "acme">>, <<"Corp", "corp">>, <<"CORP", "corp">>,
   <<"Did", "did">>, <<"For", "for">>, <<"What", "what">>,
   <<"Risk", "risk">>, <<"Factors", "factors">>,
   <<"Balance", "balance">>, <<"Sheet", "sheet">>, <<"Management", "management">>,
   <<"Overview", "overview">>, <<"Risks", "risks">>, <<"Zeta", "zeta">>}

LowerLexeme(t) ==
  IF \E p \in LowerTable : p[1] = t
  THEN (CHOOSE p \in LowerTable : p[1] = t)[2]
  ELSE t

\* str.lower()
Lower(s) == [i \in DOMAIN s |-> LowerLexeme(s[i])]

\* `sub in s`
Contains(s, sub) ==
  \E i \in 0..(Len(s) - Len(sub)) : SubSeq(s, i + 1, i + Len(sub)) = sub

\* str.strip()
Strip(s) ==
  LET keep == {i \in DOMAIN s : s[i] # Ws}
  IN IF keep = {} THEN <<>>
     ELSE LET lo == CHOOSE i \in keep : \A k \in keep : i <= k
              hi == CHOOSE i \in keep : \A k \in keep : k <= i
          IN SubSeq(s, lo, hi)

\* set(str.split()): the maximal runs of non-whitespace lexemes.
WordSet(s) ==
  {SubSeq(s, a, b) : <<a, b>> \in
     {r \in (DOMAIN s) \X (DOMAIN s) :
        /\ r[1] <= r[2]
        /\ \A k \in r[1]..r[2] : s[k] # Ws
        /\ (r[1] = 1 \/ s[r[1] - 1] = Ws)
        /\ (r[2] = Len(s) \/ s[r[2] + 1] = Ws)}}

\* ------------------------------------------------------------ metadata index
\* A dict is a sequence of <<key, value>> pairs in insertion order; storing an
\* existing key replaces its value and keeps its position.
DictKeys(d) == {d[i][1] : i \in DOMAIN d}

DictGet(d, k) == d[CHOOSE i \in DOMAIN d : d[i][1] = k][2]

DictPut(d, k, v) ==
  IF k \in DictKeys(d)
  THEN [i \in DOMAIN d |-> IF d[i][1] = k THEN <<k, v>> ELSE d[i]]
  ELSE Append(d, <<k, v>>)

RECURSIVE BuildCompanyToSha1(_)
BuildCompanyToSha1(meta) ==
  IF meta = <<>> THEN <<>>
  ELSE LET m == meta[Len(meta)]
       IN DictPut(BuildCompanyToSha1(SubSeq(meta, 1, Len(meta) - 1)),
                  Lower(m.company_name), m.sha1)

RECURSIVE BuildSha1ToMeta(_)
BuildSha1ToMeta(meta) ==
  IF meta = <<>> THEN <<>>
  ELSE LET m == meta[Len(meta)]
       IN DictPut(BuildSha1ToMeta(SubSeq(meta, 1, Len(meta) - 1)), m.sha1, m)

\* meta.get(key, default) on the record's flag fields.
MetaGet(m, key, default) ==
  IF key \in DOMAIN m.flags THEN m.flags[key] ELSE default

\* ---------------------------------------------------------- company resolver
\* The patterns of extract_company_name, in order: the literal words before the
\* group (joined by \s+ and followed by \s+), and the lexeme after the group,
\* preceded by \s+ or not.
patterns ==
  << [head |-> <<"For">>, tailWs |-> FALSE, tail |-> ","],
     [head |-> <<"Did">>, tailWs |-> TRUE, tail |-> "announce"],
     [head |-> <<"by">>, tailWs |-> TRUE, tail |-> "according"],
     [head |-> <<"at">>, tailWs |-> TRUE, tail |-> "in"],
     [head |-> <<"What", "is", "the">>, tailWs |-> FALSE, tail |-> "'s"] >>

\* The number of whitespace lexemes that follow position h.
RECURSIVE WsRun(_, _)
WsRun(text, h) ==
  IF h + 1 <= Len(text) /\ text[h + 1] = Ws THEN 1 + WsRun(text, h + 1) ELSE 0

\* The position of the last word of `head` when it matches from position i on
\* (words joined by \s+), 0 when it does not.
RECURSIVE HeadEnd(_, _, _)
HeadEnd(text, head, i) ==
  IF i > Len(text) \/ text[i] # head[1] THEN 0
  ELSE IF Len(head) = 1 THEN i
  ELSE IF WsRun(text, i) = 0 THEN 0
  ELSE HeadEnd(text, Tail(head), i + WsRun(text, i) + 1)

\* With the head ending at h and the leading \s+ taking s lexemes: the
\* positions k of the tail lexeme that close a group [^,\.]+ starting at h+s+1.
GroupEnds(text, p, h, s) ==
  {k \in (h + s + 2)..Len(text) :
     /\ text[k] = p.tail
     /\ \A m \in (h + s + 1)..(k - 1) : text[m] \notin {",", "."}
     /\ p.tailWs => (text[k - 1] = Ws /\ k - 1 >= h + s + 2)}

\* The greedy leading \s+ gives back lexemes only when no group closes.
Splits(text, p, h) ==
  {s \in 1..WsRun(text, h) : GroupEnds(text, p, h, s) # {}}

MatchesAt(text, p, i) ==
  LET h == HeadEnd(text, p.head, i) IN h # 0 /\ Splits(text, p, h) # {}

\* match.group(1) of the match starting at i: the lazy group ends at the
\* first closing position.
GroupAt(text, p, i) ==
  LET h == HeadEnd(text, p.head, i)
      s == CHOOSE x \in Splits(text, p, h) : \A y \in Splits(text, p, h) : y <= x
      ks == GroupEnds(text, p, h, s)
      k == CHOOSE x \in ks : \A y \in ks : x <= y
      last == IF p.tailWs
              THEN CHOOSE e \in (h + s + 1)..(k - 2) :
                     /\ \A m \in (e + 1)..(k - 1) : text[m] = Ws
                     /\ \A e2 \in (h + s + 1)..(k - 2) :
                          (\A m \in (e2 + 1)..(k - 1) : text[m] = Ws) => e <= e2
              ELSE k - 1
  IN SubSeq(text, h + s + 1, last)

\* re.search(pattern, question): None, or Some(group(1)) of the leftmost match.
Search(text, p) ==
  LET starts == {i \in DOMAIN text : MatchesAt(text, p, i)}
  IN IF starts = {} THEN None
     ELSE Some(GroupAt(text, p, CHOOSE i \in starts : \A j \in starts : i <= j))

\* The loop over the patterns: Some(match.group(1).strip()) of the first
\* pattern that matches, None when none does.
RECURSIVE FirstPattern(_, _)
FirstPattern(text, n) ==
  IF n > Len(patterns) THEN None
  ELSE IF Search(text, patterns[n]) # None
       THEN Some(Strip(Search(text, patterns[n])[1]))
       ELSE FirstPattern(text, n + 1)

PatternName(text) == FirstPattern(text, 1)

\* A variant whose test is `>=`: the last of several equal scores wins.
RECURSIVE FuzzyScan_LastWins(_, _, _, _, _)
FuzzyScan_LastWins(d, i, company_lower, best_match, best_score) ==
  IF i > Len(d) THEN <<best_match, best_score>>
  ELSE LET overlap == Cardinality(WordSet(company_lower) \cap WordSet(d[i][1]))
       IN IF overlap >= best_score
          THEN FuzzyScan_LastWins(d, i + 1, company_lower, Some(d[i][2]), overlap)
          ELSE FuzzyScan_LastWins(d, i + 1, company_lower, best_match, best_score)

\* The fuzzy scan over company_to_sha1.items(), from entry i on.
RECURSIVE FuzzyScan(_, _, _, _, _)
FuzzyScan(d, i, company_lower, best_match, best_score) ==
  IF i > Len(d) THEN <<best_match, best_score>>
  ELSE LET words1 == WordSet(company_lower)
           words2 == WordSet(d[i][1])
           overlap == Cardinality(words1 \cap words2)
       IN IF overlap > best_score
          THEN FuzzyScan(d, i + 1, company_lower, Some(d[i][2]), overlap)
          ELSE FuzzyScan(d, i + 1, company_lower, best_match, best_score)

\* A variant that looks the name up as given.
find_pdf_NoLower(d, name) ==
  IF name \in DictKeys(d) THEN Some(DictGet(d, name))
  ELSE LET r == FuzzyScan(d, 1, name, None, 0)
       IN IF r[2] > 0 THEN r[1] ELSE None

\* find_pdf_for_company: None, or Some(sha1).
find_pdf_for_company(d, name) ==
  LET company_lower == Lower(name)
  IN IF company_lower \in DictKeys(d) THEN Some(DictGet(d, company_lower))
     ELSE LET r == FuzzyScan(d, 1, company_lower, None, 0)
          IN IF r[2] > 0 THEN r[1] ELSE None

\* ------------------------------------------------------------------- oracle
\* What client.chat.completions.create does: raises (None) or returns a
\* completion text (Some(text)).
Completions == {<<"N/A">>, <<"True">>, <<"False", Ws>>}
LlmOutcomes == {None} \cup {Some(c) : c \in Completions}

\* A variant whose failure branch keeps the placeholder confidence.
answer_question_with_llm_Confident(o) ==
  IF o = None THEN <<NA, SuccessConfidence>>
  ELSE <<Strip(o[1]), SuccessConfidence>>

\* answer_question_with_llm on an outcome of the call: <<answer, confidence>>.
answer_question_with_llm(o) ==
  IF o = None THEN <<NA, FailureConfidence>>
  ELSE <<Strip(o[1]), SuccessConfidence>>

\* _extract_company_name_with_llm on an outcome of the call: None or Some(name).
extract_company_name_with_llm(o) ==
  IF o = None THEN None ELSE Some(Strip(o[1]))

\* `if not x` for an Optional[str].
Falsy(x) == x = None \/ x[1] = <<>>

\* ------------------------------------------------------- metadata short-circuit
topics ==
  << [phrase |-> <<"share", Ws, "buyback">>, flag |-> "has_share_buyback_plans"],
     [phrase |-> <<"dividend", Ws, "policy">>, flag |-> "has_dividend_policy_changes"],
     [phrase |-> <<"mergers">>, flag |-> "mentions_recent_mergers_and_acquisitions"] >>

FlagNames == {topics[n].flag : n \in DOMAIN topics}

\* One of the three `if` statements of process_question returns the fast record.
TopicFires(n, question_text, kind, meta) ==
  /\ Contains(Lower(question_text), topics[n].phrase)
  /\ ~MetaGet(meta, topics[n].flag, FALSE)
  /\ kind = "boolean"
  /\ Contains(Lower(question_text), <<"did">>)

\* A variant that fires only on a flag that is present and false.
ShortCircuitFires_FlagRequired(question_text, kind, meta) ==
  \E n \in DOMAIN topics :
    /\ Contains(Lower(question_text), topics[n].phrase)
    /\ ~MetaGet(meta, topics[n].flag, TRUE)
    /\ kind = "boolean"
    /\ Contains(Lower(question_text), <<"did">>)

ShortCircuitFires(question_text, kind, meta) ==
  \E n \in DOMAIN topics : TopicFires(n, question_text, kind, meta)

\* ----------------------------------------------------------- page prioritizer
financial_keywords ==
  {<<"financial", Ws, "statements">>, <<"balance", Ws, "sheet">>,
   <<"income", Ws, "statement">>, <<"cash", Ws, "flow">>, <<"financial", Ws, "results">>}
leadership_keywords ==
  {<<"board", Ws, "of", Ws, "directors">>, <<"executive", Ws, "officers">>,
   <<"management">>, <<"leadership">>}
risk_keywords == {<<"risk", Ws, "factors">>, <<"risks">>, <<"uncertainties">>}

clusters ==
  << [keywords |-> financial_keywords, cue |-> <<"financial">>],
     [keywords |-> leadership_keywords, cue |-> <<"leadership">>],
     [keywords |-> risk_keywords, cue |-> <<"risk">>] >>

\* The entries page i (0-based) adds to priority_pages: one per matching cluster.
RECURSIVE PageEntries(_, _, _, _)
PageEntries(page, i, question_text, c) ==
  IF c > Len(clusters) THEN <<>>
  ELSE (IF /\ \E kw \in clusters[c].keywords : Contains(Lower(page), kw)
           /\ Contains(Lower(question_text), clusters[c].cue)
        THEN <<i>> ELSE <<>>) \o PageEntries(page, i, question_text, c + 1)

\* The loop that builds priority_pages, from page i (0-based) on.
RECURSIVE PriorityPages(_, _, _)
PriorityPages(pgs, question_text, i) ==
  IF i >= Len(pgs) THEN <<>>
  ELSE PageEntries(pgs[i + 1], i, question_text, 1)
       \o PriorityPages(pgs, question_text, i + 1)

\* -------------------------------------------------------- evidence batcher
\* lst[i:i+batch_size] for a 0-based i.
Slice(lst, i) ==
  SubSeq(lst, i + 1, IF i + batch_size < Len(lst) THEN i + batch_size ELSE Len(lst))

\* A variant that numbers the window's pages from i + 1.
Window_OneBased(pgs, i) ==
  [k \in 1..Len(Slice(pgs, i)) |-> i + k]

\* The page indices of the window pages[i:i+batch_size].
Window(pgs, i) ==
  [k \in 1..Len(Slice(pgs, i)) |-> i + k - 1]

\* A variant without the test for the "N/A" sentinel.
IsNewBest_NoSentinel(answer, confidence, best) == confidence > best

\* `confidence > best_confidence and answer != "N/A"`
IsNewBest(answer, confidence, best) == confidence > best /\ answer # NA

\* A variant that skips a window only when it starts at a priority page.
Overlaps_StartOnly(i, prio) == \E k \in DOMAIN prio : prio[k] = i

\* `any(i <= p < i + batch_size for p in priority_pages)`
Overlaps(i, prio) == \E k \in DOMAIN prio : i <= prio[k] /\ prio[k] < i + batch_size

\* The references of the final record.
References(sha, page_idx) ==
  IF page_idx >= 0 THEN <<[pdf_sha1 |-> sha, page_index |-> page_idx]>> ELSE <<>>

\* -------------------------------------------------------------------- state
VARIABLES
  pdf_meta,          \* the metadata file: a sequence of records
  questions,         \* the questions file: a sequence of {text, kind}
  pdf_files,         \* sha1 -> None (no file) or Some(the pages extract_text_from_pdf returns)
  single_question,   \* args.single_question: None or Some(index)
  company_to_sha1,   \* self.company_to_sha1
  sha1_to_meta,      \* self.sha1_to_meta
  pc,                \* the position of the program
  mode,              \* who called process_question: "single" or "all"
  qidx,              \* the index of the question being processed
  results,           \* the records collected so far
  output,            \* the output file: None or Some(records)
  exit_code,         \* None while running, Some(code) once main has ended
  question_data,     \* the argument of process_question
  company_name, sha1, pages, priority_pages,      \* locals of process_question
  best_answer, best_page_idx, best_confidence,
  bi,                \* the batch loop's i
  answer,            \* the batch's answer during localization
  lj,                \* the localization loop's j
  stages,            \* history: the stages process_question ran for this question
  calls,             \* history: the batch-level oracle calls of this question
  page_calls,        \* history: the per-page oracle calls of this question
  started,           \* history: the indices of the questions process_question was called on
  query, found       \* a direct call of find_pdf_for_company and its result

inputs == <<pdf_meta, questions, pdf_files, single_question, company_to_sha1, sha1_to_meta>>
runner == <<mode, qidx, results, output, exit_code, started>>
locals == <<question_data, company_name, sha1, pages, priority_pages, best_answer, best_page_idx,
            best_confidence, bi, answer, lj>>
history == <<stages, calls, page_calls>>
direct == <<query, found>>
vars == <<inputs, pc, runner, locals, history, direct>>

question_text == question_data.text
kind == question_data.kind

Unresolved == [question_text |-> question_text, value |-> NA, references |-> <<>>]

\* A variant whose caller keeps only the resolved records.
Return_DropsUnresolved(rec) ==
  /\ results' = IF mode = "single" THEN <<rec>>
                ELSE IF rec.value = NA THEN results ELSE Append(results, rec)
  /\ qidx' = IF mode = "single" THEN qidx ELSE qidx + 1
  /\ pc' = IF mode = "single" THEN "save" ELSE "run_loop"
  /\ UNCHANGED <<mode, output, exit_code, started>>

\* `return record` from process_question, back in its caller: main stores
\* [result]; process_all_questions appends, sleeps and takes the next question.
Return(rec) ==
  /\ results' = IF mode = "single" THEN <<rec>> ELSE Append(results, rec)
  /\ qidx' = IF mode = "single" THEN qidx ELSE qidx + 1
  /\ pc' = IF mode = "single" THEN "save" ELSE "run_loop"
  /\ UNCHANGED <<mode, output, exit_code, started>>

\* The call process_question(questions[i]).
Call(i) ==
  /\ qidx' = i
  /\ started' = Append(started, i)
  /\ pc' = "extract"
  /\ question_data' = questions[i + 1]
  /\ company_name' = None /\ sha1' = None /\ pages' = <<>> /\ priority_pages' = <<>>
  /\ best_answer' = NA /\ best_page_idx' = NoPage /\ best_confidence' = 0
  /\ bi' = 0 /\ answer' = NA /\ lj' = 0
  /\ stages' = <<>> /\ calls' = <<>> /\ page_calls' = <<>>

\* ------------------------------------------------------------------- main()
\* An index out of range: logged, and main returns.
MainInvalidIndex ==
  /\ pc = "main"
  /\ single_question # None
  /\ (single_question[1] < 0 \/ single_question[1] >= Len(questions))
  /\ pc' = "exit"
  /\ exit_code' = Some(0)
  /\ UNCHANGED <<inputs, mode, qidx, results, output, started, locals, history, direct>>

MainSingle ==
  /\ pc = "main"
  /\ single_question # None
  /\ ~(single_question[1] < 0 \/ single_question[1] >= Len(questions))
  /\ mode' = "single"
  /\ Call(single_question[1])
  /\ UNCHANGED <<inputs, results, output, exit_code, direct>>

MainAll ==
  /\ pc = "main"
  /\ single_question = None
  /\ mode' = "all"
  /\ qidx' = 0
  /\ results' = <<>>
  /\ pc' = "run_loop"
  /\ UNCHANGED <<inputs, output, exit_code, started, locals, history, direct>>

\* save_results, then main ends.
SaveResults ==
  /\ pc = "save"
  /\ output' = Some(results)
  /\ exit_code' = Some(0)
  /\ pc' = "exit"
  /\ UNCHANGED <<inputs, mode, qidx, results, started, locals, history, direct>>

\* ---------------------------------------------------- process_all_questions
RunnerStep ==
  /\ pc = "run_loop"
  /\ qidx < Len(questions)
  /\ Call(qidx)
  /\ UNCHANGED <<inputs, mode, results, output, exit_code, direct>>

RunnerDone ==
  /\ pc = "run_loop"
  /\ qidx >= Len(questions)
  /\ pc' = "save"
  /\ UNCHANGED <<inputs, runner, locals, history, direct>>

\* --------------------------------------------------------- process_question
\* The replies of the name-extraction oracle.
NameCompletions == {<<"Acme", Ws, "Corp", Ws>>, <<"Zeta">>, <<Ws>>}
NameOutcomes == {None} \cup {Some(c) : c \in NameCompletions}

CallRecord(fn, pass, idxs, failed, ans, conf) ==
  [fn |-> fn, pass |-> pass, idxs |-> idxs, failed |-> failed,
   answer |-> ans, confidence |-> conf]

\* extract_company_name and the test `if not company_name`.
ExtractCompany ==
  /\ pc = "extract"
  /\ \E o \in NameOutcomes :
       LET pat == PatternName(question_text)
           name == IF pat # None THEN pat ELSE extract_company_name_with_llm(o)
       IN /\ company_name' = name
          /\ calls' = IF pat # None THEN calls
                      ELSE Append(calls, CallRecord("extract", "none", <<>>, o = None,
                                                    IF name = None THEN NA ELSE name[1], 0))
          /\ stages' = Append(stages, "extract")
          /\ IF Falsy(name)
             THEN Return(Unresolved)
             ELSE pc' = "find" /\ UNCHANGED runner
  /\ UNCHANGED <<inputs, question_data, sha1, pages, priority_pages, best_answer, best_page_idx,
                 best_confidence, bi, answer, lj, page_calls, direct>>

\* find_pdf_for_company and the test `if not sha1`.
FindPdf ==
  /\ pc = "find"
  /\ LET r == find_pdf_for_company(company_to_sha1, company_name[1])
     IN /\ sha1' = r
        /\ IF r = None \/ r[1] = ""
           THEN Return(Unresolved)
           ELSE pc' = "exists" /\ UNCHANGED runner
  /\ stages' = Append(stages, "find")
  /\ UNCHANGED <<inputs, question_data, company_name, pages, priority_pages, best_answer, best_page_idx,
                 best_confidence, bi, answer, lj, calls, page_calls, direct>>

\* `if not pdf_path.exists()`
CheckFile ==
  /\ pc = "exists"
  /\ IF pdf_files[sha1[1]] = None
     THEN Return(Unresolved)
     ELSE pc' = "pages" /\ UNCHANGED runner
  /\ stages' = Append(stages, "exists")
  /\ UNCHANGED <<inputs, question_data, company_name, sha1, pages, priority_pages, best_answer,
                 best_page_idx, best_confidence, bi, answer, lj, calls, page_calls, direct>>

\* A variant without the test `if not pages`.
ExtractText_NoCheck ==
  /\ pc = "pages"
  /\ pages' = pdf_files[sha1[1]][1]
  /\ pc' = "shortcut"
  /\ stages' = Append(stages, "pages")
  /\ UNCHANGED <<inputs, runner, question_data, company_name, sha1, priority_pages,
                 best_answer, best_page_idx, best_confidence, bi, answer, lj, calls,
                 page_calls, direct>>

\* extract_text_from_pdf and the test `if not pages`.
ExtractText ==
  /\ pc = "pages"
  /\ pages' = pdf_files[sha1[1]][1]
  /\ IF pages' = <<>>
     THEN Return(Unresolved)
     ELSE pc' = "shortcut" /\ UNCHANGED runner
  /\ stages' = Append(stages, "pages")
  /\ UNCHANGED <<inputs, question_data, company_name, sha1, priority_pages, best_answer,
                 best_page_idx, best_confidence, bi, answer, lj, calls, page_calls, direct>>

meta == DictGet(sha1_to_meta, sha1[1])

FastRecord ==
  [question_text |-> question_text, value |-> <<"False">>,
   references |-> <<[pdf_sha1 |-> sha1[1], page_index |-> 0]>>]

\* The metadata short-circuit returns the fast record.
ShortCircuit ==
  /\ pc = "shortcut"
  /\ ShortCircuitFires(question_text, kind, meta)
  /\ stages' = Append(stages, "shortcut")
  /\ Return(FastRecord)
  /\ UNCHANGED <<inputs, locals, calls, page_calls, direct>>

\* No short-circuit: the best answer is initialised and priority_pages built.
Prioritize ==
  /\ pc = "shortcut"
  /\ ~ShortCircuitFires(question_text, kind, meta)
  /\ best_answer' = NA
  /\ best_page_idx' = NoPage
  /\ best_confidence' = 0
  /\ priority_pages' = PriorityPages(pages, question_text, 0)
  /\ bi' = 0
  /\ pc' = "prio_batch"
  /\ stages' = stages \o <<"shortcut", "prioritize">>
  /\ UNCHANGED <<inputs, runner, question_data, company_name, sha1, pages, answer, lj, calls,
                 page_calls, direct>>

\* One batch-level query on the page indices idxs; a new best answer starts
\* the localization loop at `locpc`, otherwise the batch loop goes on at `looppc`.
BatchQuery(pass, idxs, locpc, looppc) ==
  \E o \in LlmOutcomes :
    LET r == answer_question_with_llm(o)
    IN /\ calls' = Append(calls, CallRecord("batch", pass, idxs, o = None, r[1], r[2]))
       /\ IF IsNewBest(r[1], r[2], best_confidence)
          THEN /\ best_confidence' = r[2]
               /\ best_answer' = r[1]
               /\ answer' = r[1]
               /\ lj' = 0
               /\ pc' = locpc
               /\ UNCHANGED bi
          ELSE /\ bi' = bi + batch_size
               /\ pc' = looppc
               /\ UNCHANGED <<best_confidence, best_answer, answer, lj>>
       /\ UNCHANGED <<best_page_idx, page_calls>>

\* A variant that accepts the first page with any answer and adopts it.
PageQuery_AdoptsPageAnswer(idxs, looppc) ==
  \E o \in LlmOutcomes :
    LET r == answer_question_with_llm(o)
        idx == idxs[lj + 1]
    IN /\ page_calls' = Append(page_calls, [idx |-> idx, answer |-> r[1]])
       /\ IF r[1] # NA
          THEN /\ best_page_idx' = idx
               /\ best_answer' = r[1]
               /\ bi' = bi + batch_size
               /\ pc' = looppc
               /\ UNCHANGED lj
          ELSE /\ UNCHANGED <<best_page_idx, best_answer>>
               /\ IF lj + 1 < Len(idxs)
                  THEN lj' = lj + 1 /\ UNCHANGED <<bi, pc>>
                  ELSE bi' = bi + batch_size /\ pc' = looppc /\ UNCHANGED lj
       /\ UNCHANGED <<best_confidence, answer, calls>>

\* A variant without the `break`: the loop goes on after a matching page.
PageQuery_NoBreak(idxs, looppc) ==
  \E o \in LlmOutcomes :
    LET r == answer_question_with_llm(o)
        idx == idxs[lj + 1]
    IN /\ page_calls' = Append(page_calls, [idx |-> idx, answer |-> r[1]])
       /\ best_page_idx' = IF r[1] = answer THEN idx ELSE best_page_idx
       /\ IF lj + 1 < Len(idxs)
          THEN lj' = lj + 1 /\ UNCHANGED <<bi, pc>>
          ELSE bi' = bi + batch_size /\ pc' = looppc /\ UNCHANGED lj
       /\ UNCHANGED <<best_confidence, best_answer, answer, calls>>

\* One single-page query of the localization loop over the batch idxs.
PageQuery(idxs, looppc) ==
  \E o \in LlmOutcomes :
    LET r == answer_question_with_llm(o)
        idx == idxs[lj + 1]
    IN /\ page_calls' = Append(page_calls, [idx |-> idx, answer |-> r[1]])
       /\ IF r[1] = answer
          THEN /\ best_page_idx' = idx
               /\ bi' = bi + batch_size
               /\ pc' = looppc
               /\ UNCHANGED lj
          ELSE /\ UNCHANGED best_page_idx
               /\ IF lj + 1 < Len(idxs)
                  THEN lj' = lj + 1 /\ UNCHANGED <<bi, pc>>
                  ELSE bi' = bi + batch_size /\ pc' = looppc /\ UNCHANGED lj
       /\ UNCHANGED <<best_confidence, best_answer, answer, calls>>

PriorityBatch ==
  /\ pc = "prio_batch"
  /\ bi < Len(priority_pages)
  /\ BatchQuery("priority", Slice(priority_pages, bi), "prio_page", "prio_batch")
  /\ UNCHANGED <<inputs, runner, question_data, company_name, sha1, pages, priority_pages, stages, direct>>

PriorityPage ==
  /\ pc = "prio_page"
  /\ PageQuery(Slice(priority_pages, bi), "prio_batch")
  /\ UNCHANGED <<inputs, runner, question_data, company_name, sha1, pages, priority_pages, stages, direct>>

\* The priority loop is over; `if best_answer == "N/A"` decides the second pass.
PriorityDone ==
  /\ pc = "prio_batch"
  /\ bi >= Len(priority_pages)
  /\ bi' = 0
  /\ pc' = IF best_answer = NA THEN "rest_batch" ELSE "assemble"
  /\ UNCHANGED <<inputs, runner, question_data, company_name, sha1, pages, priority_pages, best_answer,
                 best_page_idx, best_confidence, answer, lj, history, direct>>

\* `continue`: a window that holds a priority page.
RemainingSkip ==
  /\ pc = "rest_batch"
  /\ bi < Len(pages)
  /\ Overlaps(bi, priority_pages)
  /\ bi' = bi + batch_size
  /\ UNCHANGED <<inputs, pc, runner, question_data, company_name, sha1, pages, priority_pages, best_answer,
                 best_page_idx, best_confidence, answer, lj, history, direct>>

RemainingBatch ==
  /\ pc = "rest_batch"
  /\ bi < Len(pages)
  /\ ~Overlaps(bi, priority_pages)
  /\ BatchQuery("remaining", Window(pages, bi), "rest_page", "rest_batch")
  /\ UNCHANGED <<inputs, runner, question_data, company_name, sha1, pages, priority_pages, stages, direct>>

RemainingPage ==
  /\ pc = "rest_page"
  /\ PageQuery(Window(pages, bi), "rest_batch")
  /\ UNCHANGED <<inputs, runner, question_data, company_name, sha1, pages, priority_pages, stages, direct>>

RemainingDone ==
  /\ pc = "rest_batch"
  /\ bi >= Len(pages)
  /\ pc' = "assemble"
  /\ UNCHANGED <<inputs, runner, locals, history, direct>>

\* The references are built and the record returned.
Assemble ==
  /\ pc = "assemble"
  /\ stages' = Append(stages, "assemble")
  /\ Return([question_text |-> question_text, value |-> best_answer,
             references |-> References(sha1[1], best_page_idx)])
  /\ UNCHANGED <<inputs, locals, calls, page_calls, direct>>

\* ------------------------------------------------------------------- inputs
AcmeCorp == <<"Acme", Ws, "Corp">>
Sha1s == {"s1", "s2"}

MetaRecord(name, sha, flags) == [company_name |-> name, sha1 |-> sha, flags |-> flags]

\* Every choice of present flags and their values.
FlagDicts == UNION {[S -> BOOLEAN] : S \in SUBSET FlagNames}
NoFlags == CHOOSE f \in FlagDicts : DOMAIN f = {}

Question(text, k) == [text |-> text, kind |-> k]

RECURSIVE JoinAnd(_)
JoinAnd(parts) ==
  IF parts = <<>> THEN <<"plans">>
  ELSE IF Len(parts) = 1 THEN parts[1]
  ELSE parts[1] \o <<Ws, "and", Ws>> \o JoinAnd(Tail(parts))

\* The questions about the topics of ns (a subsequence of 1..3), in three
\* wordings: "Did X announce ...?" (a pattern, with "did"), "For X, what
\* about ...?" (a pattern, without "did") and "why did X change ...?" (no
\* pattern: the oracle names the company).
TopicText(form, ns) ==
  LET rest == JoinAnd([k \in DOMAIN ns |-> topics[ns[k]].phrase])
  IN CASE form = "did" -> <<"Did", Ws>> \o AcmeCorp \o <<Ws, "announce", Ws>> \o rest \o <<"?">>
       [] form = "for" -> <<"For", Ws>> \o AcmeCorp \o <<",", Ws, "what", Ws, "about", Ws>> \o rest \o <<"?">>
       [] form = "free" -> <<"why", Ws, "did", Ws>> \o AcmeCorp \o <<Ws, "change", Ws>> \o rest \o <<"?">>

TopicLists == {<<>>, <<1>>, <<2>>, <<3>>, <<1, 2>>, <<1, 3>>, <<2, 3>>, <<1, 2, 3>>}
Forms == {"did", "for", "free"}
Kinds == {"boolean", "number"}

TopicQuestions ==
  {Question(TopicText(f, ns), k) : <<f, ns, k>> \in Forms \X TopicLists \X Kinds}

\* Page texts: no keyword, a risk keyword, a financial and a risk keyword.
PlainPage == <<"Overview">>
RiskPage == <<"Risk", Ws, "Factors">>
BothPage == <<"Balance", Ws, "Sheet", Ws, "Risks">>

\* n pages, those numbered a..b (1-based) being `marked`, the others plain.
Layout(n, a, b, marked) ==
  [i \in 1..n |-> IF a <= i /\ i <= b THEN marked ELSE PlainPage]

Layouts ==
  {Layout(n, a, b, m) : <<n, a, b, m>> \in
     {t \in (1..MaxPages) \X (1..MaxPages) \X (0..MaxPages) \X {RiskPage, BothPage} :
        /\ t[2] <= t[1] /\ t[3] <= t[1]
        /\ (t[3] = 0 => (t[2] = 1 /\ t[4] = RiskPage))
        /\ (t[3] # 0 => t[2] <= t[3])}}

\* Questions with the topic cues of the prioritizer: none, one, two.
CueQuestions ==
  {Question(<<"Did", Ws>> \o AcmeCorp \o <<Ws, "announce", Ws>> \o c \o <<"?">>, "number") :
     c \in {<<"growth">>, <<"risk">>, <<"financial", Ws, "risk">>}}

\* Questions of a run: one the short-circuit answers, one of an unknown
\* company, one the oracle names the company of.
RunQuestions ==
  {Question(TopicText("did", <<1>>), "boolean"),
   Question(<<"For", Ws, "Zeta", ",", Ws, "what", Ws, "risk", "?">>, "number"),
   Question(TopicText("free", <<>>), "number")}

SeqsUpTo(S, n) == UNION {[1..k -> S] : k \in 0..n}

FilesOf(s1pages) == [s \in Sha1s |-> IF s = "s1" THEN s1pages ELSE None]

\* The state after PDFQuestionAnswerer.__init__ on the given files.
Constructed(m, qs, files, single) ==
  /\ pdf_meta = m
  /\ questions = qs
  /\ pdf_files = files
  /\ single_question = single
  /\ company_to_sha1 = BuildCompanyToSha1(m)
  /\ sha1_to_meta = BuildSha1ToMeta(m)
  /\ mode = "all" /\ qidx = 0 /\ results = <<>> /\ output = None /\ exit_code = None
  /\ started = <<>>
  /\ question_data = [text |-> <<>>, kind |-> "none"]
  /\ company_name = None /\ sha1 = None /\ pages = <<>> /\ priority_pages = <<>>
  /\ best_answer = NA /\ best_page_idx = NoPage /\ best_confidence = 0
  /\ bi = 0 /\ answer = NA /\ lj = 0
  /\ stages = <<>> /\ calls = <<>> /\ page_calls = <<>>

\* One topic question against every setting of the flags and of the file.
InitTopics ==
  \E f \in FlagDicts, q \in TopicQuestions,
     pg \in {None, Some(<<>>), Some(<<PlainPage>>)} :
    Constructed(<<MetaRecord(AcmeCorp, "s1", f)>>, <<q>>, FilesOf(pg), None)

\* One question against every page layout, in single-question mode.
InitLayouts ==
  \E q \in CueQuestions, l \in Layouts :
    Constructed(<<MetaRecord(AcmeCorp, "s1", NoFlags)>>, <<q>>, FilesOf(Some(l)), Some(0))

\* Every list of questions and every --single-question index.
InitRuns ==
  \E qs \in SeqsUpTo(RunQuestions, MaxQuestions),
     pg \in {None, Some(<<>>), Some(<<RiskPage>>)},
     single \in {None} \cup {Some(i) : i \in -1..(MaxQuestions + 1)} :
    Constructed(<<MetaRecord(AcmeCorp, "s1", NoFlags)>>, qs, FilesOf(pg), single)

Init ==
  /\ pc = "main"
  /\ query = <<>>
  /\ found = None
  /\ (InitTopics \/ InitLayouts \/ InitRuns)

Next ==
  \/ MainInvalidIndex \/ MainSingle \/ MainAll \/ SaveResults
  \/ RunnerStep \/ RunnerDone
  \/ ExtractCompany \/ FindPdf \/ CheckFile \/ ExtractText
  \/ ShortCircuit \/ Prioritize
  \/ PriorityBatch \/ PriorityPage \/ PriorityDone
  \/ RemainingSkip \/ RemainingBatch \/ RemainingPage \/ RemainingDone
  \/ Assemble

Spec == Init /\ [][Next]_vars

\* ------------------------------------------- find_pdf_for_company, called alone
NameLexemes == {"Acme", "ACME", "acme", "Corp", "corp", Ws}
QueryNames == UNION {[1..k -> NameLexemes] : k \in 1..MaxNameLen}

IndexedNames == {AcmeCorp, <<"ACME", Ws, "corp">>, <<"Corp">>}

FindRecords == {MetaRecord(n, s, NoFlags) : <<n, s>> \in IndexedNames \X Sha1s}

InitFind ==
  /\ pc = "find_call"
  /\ found = None
  /\ query \in QueryNames
  /\ \E m \in SeqsUpTo(FindRecords, MaxMeta) :
       m # <<>> /\ Constructed(m, <<>>, FilesOf(None), None)

FindCall ==
  /\ pc = "find_call"
  /\ found' = find_pdf_for_company(company_to_sha1, query)
  /\ pc' = "find_done"
  /\ UNCHANGED <<inputs, runner, locals, history, query>>

NextFind == FindCall

SpecFind == InitFind /\ [][NextFind]_vars

\* ------------------------------------------------------------------- claims
InQuestion ==
  pc \in {"extract", "find", "exists", "pages", "shortcut", "prio_batch", "prio_page",
          "rest_batch", "rest_page", "assemble"}

\* process_question has returned, and no other call of it has begun.
Returned == ~InQuestion /\ stages # <<>>

LastRecord == results[Len(results)]

BatchCalls == {calls[k] : k \in {j \in DOMAIN calls : calls[j].fn = "batch"}}

\* The record came from the metadata short-circuit.
FastPathTaken == Returned /\ stages[Len(stages)] = "shortcut"

\* The topics whose phrase occurs in the question.
Mentioned == {n \in DOMAIN topics : Contains(Lower(question_text), topics[n].phrase)}

\* C1: whenever process_question returns the fast-path record, no topic
\* phrase occurring in the question has its metadata flag set to true, also
\* when the question mentions several topics.
C1_NeverOverridesTrueFlag ==
  FastPathTaken =>
    /\ LastRecord = FastRecord
    /\ BatchCalls = {} /\ page_calls = <<>>
    /\ \A n \in Mentioned : ~MetaGet(meta, topics[n].flag, FALSE)

\* What the inputs say about the question, whatever the code did.
Resolved == find_pdf_for_company(company_to_sha1, PatternName(question_text)[1])

C2_Premise ==
  /\ Returned
  /\ PatternName(question_text) # None
  /\ Resolved # None
  /\ \E n \in DOMAIN topics :
       TopicFires(n, question_text, kind, DictGet(sha1_to_meta, Resolved[1]))

C2_Conclusion ==
  /\ LastRecord.value = <<"False">>
  /\ LastRecord.references = <<[pdf_sha1 |-> Resolved[1], page_index |-> 0]>>
  /\ calls = <<>> /\ page_calls = <<>>

\* C2 as stated: a pattern-extracted name that resolves, a topic phrase whose
\* flag is false or absent, kind boolean and "did" give the record "False"
\* with the one reference {document, page 0} and no oracle call.
C2_AsStated == C2_Premise => C2_Conclusion

FileHasPages(sha) == pdf_files[sha] # None /\ pdf_files[sha][1] # <<>>

\* C2 amended: the same, provided the document's file exists and yields at
\* least one page.
C2_FastPath == (C2_Premise /\ FileHasPages(Resolved[1])) => C2_Conclusion

C2_Witness ==
  /\ C2_Premise /\ FileHasPages(Resolved[1]) /\ C2_Conclusion
  /\ Cardinality(Mentioned) = 1
  /\ DOMAIN meta.flags = {}

\* C3: a returned record has at most one reference; its page_index is an index
\* of the pages extracted from the resolved document and its pdf_sha1 is the
\* resolved document id.
C3_ReferenceValid ==
  Returned =>
    /\ Len(LastRecord.references) <= 1
    /\ \A k \in DOMAIN LastRecord.references :
         LET ref == LastRecord.references[k]
         IN /\ ref.pdf_sha1 = find_pdf_for_company(company_to_sha1, company_name[1])[1]
            /\ 0 <= ref.page_index
            /\ ref.page_index < Len(pdf_files[ref.pdf_sha1][1])

C3_Witness ==
  /\ Returned
  /\ Len(LastRecord.references) = 1
  /\ LastRecord.references[1].page_index = Len(pages) - 1
  /\ Len(pages) > batch_size
  /\ \E a, b \in DOMAIN priority_pages : a # b /\ priority_pages[a] = priority_pages[b]

\* C4: in single-question mode an index out of range ends the run with no
\* question processed, no output written and a non-zero exit code; an index
\* in range processes that one question and writes one record.
C4_SingleQuestion ==
  (pc = "exit" /\ single_question # None) =>
    IF single_question[1] < 0 \/ single_question[1] >= Len(questions)
    THEN started = <<>> /\ output = None /\ exit_code # Some(0)
    ELSE started = <<single_question[1]>> /\ output # None /\ Len(output[1]) = 1

\* The last record of the metadata file whose name equals that of record k up
\* to case.
LastNamesake(k) ==
  CHOOSE j \in DOMAIN pdf_meta :
    /\ Lower(pdf_meta[j].company_name) = Lower(pdf_meta[k].company_name)
    /\ \A i \in DOMAIN pdf_meta :
         Lower(pdf_meta[i].company_name) = Lower(pdf_meta[k].company_name) => i <= j

\* The records the query names up to case.
Namesakes == {k \in DOMAIN pdf_meta : Lower(query) = Lower(pdf_meta[k].company_name)}

\* C5 as stated: for every record d and every casing of d's company_name the
\* call returns d's sha1, also when several records have names equal up to case.
C5_AsStated ==
  pc = "find_done" => \A k \in Namesakes : found = Some(pdf_meta[k].sha1)

\* C5 amended: for every record d and every casing of d's company_name the
\* key is in the index and the call returns the sha1 of the last record of
\* the file whose name equals d's up to case.
C5_LastNamesake ==
  pc = "find_done" =>
    \A k \in Namesakes :
      /\ Lower(query) \in DictKeys(company_to_sha1)
      /\ found = Some(pdf_meta[LastNamesake(k)].sha1)

C5_Witness ==
  /\ pc = "find_done"
  /\ \E k \in Namesakes :
       /\ LastNamesake(k) # k
       /\ pdf_meta[k].sha1 # pdf_meta[LastNamesake(k)].sha1
       /\ query # pdf_meta[k].company_name
       /\ query # pdf_meta[LastNamesake(k)].company_name
       /\ found = Some(pdf_meta[LastNamesake(k)].sha1)

\* The first stage that fails on this question: 1 name extraction, 2 document
\* resolution, 3 file presence, 4 page extraction; 0 when none does.
FirstFailure ==
  IF Falsy(company_name) THEN 1
  ELSE LET r == find_pdf_for_company(company_to_sha1, company_name[1])
       IN IF r = None THEN 2
          ELSE IF pdf_files[r[1]] = None THEN 3
          ELSE IF pdf_files[r[1]][1] = <<>> THEN 4
          ELSE 0

StageOrder == <<"extract", "find", "exists", "pages">>

\* C6: process_question stops at the first failing stage, in the order name
\* extraction, document resolution, file presence, page extraction, and
\* returns the unresolved record; no later stage runs and no answering-oracle
\* call is made.
C6_StopsAtFirstFailure ==
  (Returned /\ FirstFailure # 0) =>
    /\ stages = SubSeq(StageOrder, 1, FirstFailure)
    /\ LastRecord = Unresolved
    /\ BatchCalls = {} /\ page_calls = <<>>

C6_Witness ==
  /\ Returned
  /\ FirstFailure = 4
  /\ ShortCircuitFires(question_text, kind, meta)
  /\ LastRecord = Unresolved

Ran(stage) == \E k \in DOMAIN stages : stages[k] = stage

\* C7: when the short-circuit does not fire and every batch-level call
\* returns "N/A", the record is {"N/A", []} and no per-page query was issued.
C7_AllNotAvailable ==
  (Returned /\ Ran("prioritize") /\ \A c \in BatchCalls : c.answer = NA) =>
    /\ LastRecord.value = NA
    /\ LastRecord.references = <<>>
    /\ page_calls = <<>>

C7_Witness ==
  /\ Returned /\ Ran("prioritize")
  /\ priority_pages = <<>>
  /\ \A c \in BatchCalls : c.answer = NA
  /\ \E c \in BatchCalls : c.failed
  /\ \E c \in BatchCalls : ~c.failed
  /\ LastRecord.value = NA /\ LastRecord.references = <<>>

\* C8: a batch-level call that fails returns ("N/A", 0), leaves the best
\* answer, page index and confidence as they were, and the batch loop goes on
\* with the next batch; the question and the run are not aborted.
C8_FailureAbsorbed ==
  [][(/\ Len(calls') = Len(calls) + 1
      /\ calls'[Len(calls')].fn = "batch"
      /\ calls'[Len(calls')].failed)
     => (/\ calls'[Len(calls')].answer = NA
         /\ calls'[Len(calls')].confidence = 0
         /\ best_answer' = best_answer
         /\ best_page_idx' = best_page_idx
         /\ best_confidence' = best_confidence
         /\ page_calls' = page_calls
         /\ pc' = pc
         /\ bi' = bi + batch_size
         /\ UNCHANGED runner)]_vars

C8_Witness ==
  /\ pc \in {"prio_batch", "rest_batch"}
  /\ Len(calls) >= 2
  /\ calls[Len(calls)].fn = "batch" /\ calls[Len(calls)].failed
  /\ best_answer # NA /\ best_page_idx >= 0 /\ best_confidence = SuccessConfidence

\* C9: the best confidence is 0 or the confidence a batch-level call of this
\* question returned, so it never exceeds the largest confidence returned; a
\* best answer other than "N/A" is the answer of a batch-level call that
\* returned it with the best confidence.
C9_BestFromBatch ==
  /\ best_confidence = 0 \/ \E c \in BatchCalls : c.confidence = best_confidence
  /\ best_confidence > 0 => \E c \in BatchCalls : best_confidence <= c.confidence
  /\ best_answer # NA =>
       \E c \in BatchCalls : c.answer = best_answer /\ c.confidence = best_confidence

C9_Witness ==
  /\ InQuestion
  /\ best_answer = <<"True">>
  /\ \E c \in BatchCalls : c.answer = <<"False">>
  /\ \E c \in BatchCalls : c.failed

\* C10: process_all_questions calls process_question on each question once,
\* in input order and one at a time; the k-th record carries the k-th
\* question's text, and the run ends with one record per question whatever
\* fails on the way.
C10_OneRecordPerQuestion ==
  (single_question = None /\ pc # "main") =>
    /\ started = [k \in 1..Len(started) |-> k - 1]
    /\ Len(results) = IF InQuestion THEN Len(started) - 1 ELSE Len(started)
    /\ \A k \in DOMAIN results : results[k].question_text = questions[k].text
    /\ pc \in {"save", "exit"} => Len(results) = Len(questions)
    /\ output # None => output[1] = results

C10_Witness ==
  /\ single_question = None
  /\ pc = "exit"
  /\ Len(questions) >= 2
  /\ Len(results) = Len(questions)
  /\ results[1] = [question_text |-> questions[1].text, value |-> NA, references |-> <<>>]
  /\ results[2].value # NA
  /\ output = Some(results)

IsBatch(c) == c.fn = "batch"

\* The batch-level calls of the question, in the order they were made.
BatchSeq == SelectSeq(calls, IsBatch)

\* The position in BatchSeq of the batch whose answer became the best answer:
\* the first one answered with something other than "N/A"; 0 when there is none.
BestBatch ==
  LET hits == {k \in DOMAIN BatchSeq : BatchSeq[k].answer # NA}
  IN IF hits = {} THEN 0 ELSE CHOOSE k \in hits : \A j \in hits : k <= j

\* C11: the pages of the batch that produced the best answer are re-queried
\* one at a time in batch order up to the first page whose answer equals the
\* batch answer; that page is the one reported, and when no page of the batch
\* matches the record carries no reference.
C11_FirstMatchingPage ==
  (Returned /\ Ran("prioritize")) =>
    IF BestBatch = 0
    THEN page_calls = <<>> /\ LastRecord.value = NA /\ LastRecord.references = <<>>
    ELSE LET b == BatchSeq[BestBatch]
             n == Len(page_calls)
         IN /\ LastRecord.value = b.answer
            /\ 1 <= n /\ n <= Len(b.idxs)
            /\ \A k \in 1..n : page_calls[k].idx = b.idxs[k]
            /\ \A k \in 1..(n - 1) : page_calls[k].answer # b.answer
            /\ IF page_calls[n].answer = b.answer
               THEN LastRecord.references =
                      <<[pdf_sha1 |-> sha1[1], page_index |-> b.idxs[n]]>>
               ELSE n = Len(b.idxs) /\ LastRecord.references = <<>>

C11_Witness ==
  /\ Returned /\ Ran("prioritize")
  /\ BestBatch > 1
  /\ Len(page_calls) >= 2
  /\ Len(page_calls) < Len(BatchSeq[BestBatch].idxs)
  /\ page_calls[Len(page_calls)].answer = BatchSeq[BestBatch].answer
  /\ Len(LastRecord.references) = 1
  /\ LastRecord.references[1].page_index = page_calls[Len(page_calls)].idx

\* The number of groups of batch_size positions of the priority list.
PriorityGroups == (Len(priority_pages) + batch_size - 1) \div batch_size

\* The k-th group of positions of the priority list.
PriorityGroup(k) ==
  LET lo == batch_size * (k - 1)
      n == IF Len(priority_pages) - lo < batch_size
           THEN Len(priority_pages) - lo ELSE batch_size
  IN [j \in 1..n |-> priority_pages[lo + j]]

\* The window starts the remaining pass may query: the multiples of
\* batch_size below the page count whose window holds no priority index.
FreeStarts ==
  {i \in 0..(Len(pages) - 1) :
     /\ i % batch_size = 0
     /\ \A k \in DOMAIN priority_pages :
          priority_pages[k] < i \/ priority_pages[k] >= i + batch_size}

\* The page indices of the window that starts at i.
WindowAt(i) ==
  LET n == IF Len(pages) - i < batch_size THEN Len(pages) - i ELSE batch_size
  IN [j \in 1..n |-> i + j - 1]

\* C12: the batch-level calls are the groups of batch_size positions of the
\* priority list, all of them and in order, followed, if and only if none of
\* them was answered with something other than "N/A", by the windows that
\* hold no priority index, in ascending order and once each; a remaining-pass
\* batch never holds a priority index.
C12_PassOrder ==
  (Returned /\ Ran("prioritize")) =>
    LET np == PriorityGroups
        nr == Len(BatchSeq) - np
        found_in_priority == \E k \in 1..np : BatchSeq[k].answer # NA
    IN /\ nr >= 0
       /\ \A k \in 1..np :
            BatchSeq[k].pass = "priority" /\ BatchSeq[k].idxs = PriorityGroup(k)
       /\ \A k \in (np + 1)..Len(BatchSeq) :
            /\ BatchSeq[k].pass = "remaining"
            /\ BatchSeq[k].idxs[1] \in FreeStarts
            /\ BatchSeq[k].idxs = WindowAt(BatchSeq[k].idxs[1])
            /\ \A j \in (np + 1)..(k - 1) : BatchSeq[j].idxs[1] < BatchSeq[k].idxs[1]
            /\ \A j \in DOMAIN BatchSeq[k].idxs, q \in DOMAIN priority_pages :
                 BatchSeq[k].idxs[j] # priority_pages[q]
       /\ IF found_in_priority THEN nr = 0 ELSE nr = Cardinality(FreeStarts)

C12_Witness ==
  /\ Returned /\ Ran("prioritize")
  /\ PriorityGroups >= 2
  /\ Len(BatchSeq) > PriorityGroups
  /\ Cardinality(FreeStarts) < (Len(pages) + batch_size - 1) \div batch_size
  /\ BatchSeq[Len(BatchSeq)].pass = "remaining"

\* The number of words the lower-cased query shares with the i-th indexed name.
Score(i) == Cardinality(WordSet(Lower(query)) \cap WordSet(company_to_sha1[i][1]))

\* The first entry, in insertion order, whose score no other entry exceeds.
FirstBest ==
  CHOOSE i \in DOMAIN company_to_sha1 :
    /\ \A j \in DOMAIN company_to_sha1 : Score(j) <= Score(i)
    /\ \A j \in 1..(i - 1) : Score(j) < Score(i)

NoExactMatch == \A i \in DOMAIN company_to_sha1 : company_to_sha1[i][1] # Lower(query)

\* C13: without an exact match, find_pdf_for_company returns the id of the
\* indexed name that shares the most words with the query, the first such name
\* in insertion order when several share the most, and None exactly when no
\* indexed name shares a word with the query; the result is therefore a
\* function of the index and the query.
C13_FirstLargestOverlap ==
  (pc = "find_done" /\ NoExactMatch) =>
    /\ (found = None) <=> (\A i \in DOMAIN company_to_sha1 : Score(i) = 0)
    /\ found # None => found = Some(company_to_sha1[FirstBest][2])

C13_Witness ==
  /\ pc = "find_done" /\ NoExactMatch
  /\ Len(company_to_sha1) = 2
  /\ Score(1) = Score(2) /\ Score(1) > 0
  /\ company_to_sha1[1][2] # company_to_sha1[2][2]
  /\ found = Some(company_to_sha1[1][2])

====
